---- MODULE Spec2Model ----
(***************************************************************************)
(* Model of xtm_filter_templates_app.py: a Streamlit script that loads a   *)
(* JSON catalog of filter templates, resolves the tutorial wizard's        *)
(* suggestions against it, filters it by search term and category, and     *)
(* groups it by category for the chart and the flowchart.                  *)
(*                                                                         *)
(* Streamlit runs the whole script top to bottom once at session start and *)
(* once after every widget interaction, so every action below is one full  *)
(* run of the script.  An uncaught Python exception ends the run at the    *)
(* line that raised it.  Calls into the rendering and export libraries     *)
(* (st.*, px.sunburst, pandas/openpyxl in to_excel_styled, agraph) only    *)
(* consume the values built here and are taken to return normally.         *)
(***************************************************************************)
EXTENDS Integers, Sequences, FiniteSets, TLC

(***************************************************************************)
(* Bounds of the model.                                                    *)
(***************************************************************************)
MaxCatalogLen == 2

(***************************************************************************)
(* Python strings.  A string is a TLA+ string; its characters, needed by   *)
(* str.lower, the `in` substring test and sorted, are given by Chars.      *)
(***************************************************************************)
UpperCase == <<"A","B","C","D","E","F","G","H","I","J","K","L","M",
               "N","O","P","Q","R","S","T","U","V","W","X","Y","Z">>
LowerCase == <<"a","b","c","d","e","f","g","h","i","j","k","l","m",
               "n","o","p","q","r","s","t","u","v","w","x","y","z">>

Letters == {UpperCase[i] : i \in 1..26} \cup {LowerCase[i] : i \in 1..26} \cup {" "}

\* str.lower() of one character: A-Z go to a-z, everything else stays
ToLower ==
  [c \in Letters |->
     IF \E i \in 1..26 : UpperCase[i] = c
     THEN LowerCase[CHOOSE i \in 1..26 : UpperCase[i] = c]
     ELSE c]

\* code point of a character (space, A-Z, a-z)
Ord ==
  [c \in Letters |->
     IF c = " " THEN 32
     ELSE IF \E i \in 1..26 : UpperCase[i] = c
     THEN 64 + (CHOOSE i \in 1..26 : UpperCase[i] = c)
     ELSE 96 + (CHOOSE i \in 1..26 : LowerCase[i] = c)]

Chars(s) ==
  CASE s = ""              -> <<>>
    [] s = "VTT"           -> <<"V","T","T">>
    [] s = "vtt"           -> <<"v","t","t">>
    [] s = "Vtt"           -> <<"V","t","t">>
    [] s = "TT"            -> <<"T","T">>
    [] s = "PPT w Notes"   -> <<"P","P","T"," ","w"," ","N","o","t","e","s">>
    [] s = "All"           -> <<"A","l","l">>
    [] s = "Uncategorized" -> <<"U","n","c","a","t","e","g","o","r","i","z","e","d">>

\* str.lower(), character by character
lower(cs) == [i \in 1..Len(cs) |-> ToLower[cs[i]]]

\* Python `a in b` on strings: a occurs as a contiguous slice of b
StrIn(a, b) ==
  \E k \in 0..(Len(b) - Len(a)) : \A i \in 1..Len(a) : b[k + i] = a[i]

\* Python str `<`: lexicographic on code points, a proper prefix is smaller
RECURSIVE StrLess(_, _)
StrLess(a, b) ==
  IF b = <<>> THEN FALSE
  ELSE IF a = <<>> THEN TRUE
  ELSE IF Ord[Head(a)] # Ord[Head(b)] THEN Ord[Head(a)] < Ord[Head(b)]
  ELSE StrLess(Tail(a), Tail(b))

(***************************************************************************)
(* Python dicts read from JSON: a function whose domain is the keys        *)
(* present.  d[k] raises KeyError when k is not a key; d.get(k, default)   *)
(* does not.                                                               *)
(***************************************************************************)
HasKey(d, k) == k \in DOMAIN d
Get(d, k, default) == IF HasKey(d, k) THEN d[k] ELSE default

(***************************************************************************)
(* The wizard's rule table (module-level constant of the script).  The     *)
(* source writes three of the names with an en dash (U+2013); it is        *)
(* written "-" here.                                                       *)
(***************************************************************************)
RuleTable ==
  [ PowerPoint |->
      [ question |-> "Will the notes need to be extracted?",
        answers  |-> ( "Yes" :> <<"PowerPoint with notes", "PPT w Notes">>
                    @@ "No"  :> <<"PowerPoint without notes", "PPT w/o Notes",
                                  "PPTX w/o Notes, Comments and Hidden Slides">> ) ],
    Excel |->
      [ question |-> "Is it bilingual or monolingual?",
        answers  |-> ( "Bilingual"   :> <<"Bilingual Excel", "Bilingual Excel - Websites">>
                    @@ "Monolingual" :> <<"Monolingual Excel - Aldo">> ) ],
    Word |->
      [ question |-> "Should headers/footers be translated?",
        answers  |-> ( "Yes" :> <<"DOCX - exclude properties">>
                    @@ "No"  :> <<"Word w/o Headers/Footers">> ) ],
    Subtitles |->
      [ question |-> "Which format?",
        answers  |-> ( "SRT" :> <<"SRT Custom Files">>
                    @@ "VTT" :> <<"VTT">> ) ],
    JSON |->
      [ question |-> "What type of JSON handling?",
        answers  |-> ( "Ignore underscore keys" :> <<"JSON exclude underscore keys">>
                    @@ "Protect placeholders"   :> <<"JSON Variables">> ) ],
    XML |->
      [ question |-> "Which XML type?",
        answers  |-> ( "Sitecore CMS" :> <<"Sitecore XML">>
                    @@ "SoundTransit" :> <<"XML soundtransit">> ) ] ]

\* list(rules.keys()): dict keys in authoring order
file_types == <<"PowerPoint", "Excel", "Word", "Subtitles", "JSON", "XML">>

\* list(rules[f]["answers"].keys()): answer labels in authoring order
AnswerKeys(f) ==
  CASE f = "PowerPoint" -> <<"Yes", "No">>
    [] f = "Excel"      -> <<"Bilingual", "Monolingual">>
    [] f = "Word"       -> <<"Yes", "No">>
    [] f = "Subtitles"  -> <<"SRT", "VTT">>
    [] f = "JSON"       -> <<"Ignore underscore keys", "Protect placeholders">>
    [] f = "XML"        -> <<"Sitecore CMS", "SoundTransit">>

(***************************************************************************)
(* The JSON documents "Filter Templates.json" may hold.  A record is a     *)
(* dict with any of the keys name, description, category.                  *)
(***************************************************************************)
Records ==
  { [name |-> "VTT"],
    [name |-> "VTT", description |-> "Vtt", category |-> "VTT"],
    [name |-> "vtt", category |-> ""],
    [name |-> "PPT w Notes", description |-> "Vtt"],
    [name |-> "PPT w Notes", category |-> "VTT"],
    [description |-> "Vtt", category |-> "VTT"] }

\* what the user may type into the search box
SearchTerms == {"", "TT"}

RECURSIVE SeqsUpTo(_, _)
SeqsUpTo(S, n) ==
  IF n = 0 THEN { <<>> }
  ELSE LET shorter == SeqsUpTo(S, n - 1)
       IN  shorter \cup { Append(q, x) : q \in { r \in shorter : Len(r) = n - 1 }, x \in S }

\* a file that is not valid JSON, or one holding an array of records
Sources ==
  { [ok |-> FALSE, doc |-> <<>>] } \cup { [ok |-> TRUE, doc |-> d] : d \in SeqsUpTo(Records, MaxCatalogLen) }

VARIABLES
  source,            \* content of "Filter Templates.json"
  started,           \* the script has run at least once in this session
  templates,         \* module variable `templates`
  rules,             \* module variable `rules`
  selected_file,     \* value of the file-type selectbox
  radio_state,       \* session state of the st.radio widget: its identity and value
  answer,            \* module variable `answer` ("" when the radio was not rendered)
  wizard,            \* elements the wizard loop emitted, in order
  search_term,       \* value of the sidebar text input
  selected_category, \* value of the sidebar category selectbox
  categories,        \* module variable `categories`
  filtered,          \* module variable `filtered`
  df_plot,           \* module variable `df_plot`
  cats,              \* module variable `cats`: (category, names) pairs in insertion order
  nodes,             \* module variable `nodes`
  edges,             \* module variable `edges`
  error              \* the exception that ended the last run, and the line that raised it

vars == << source, started, templates, rules, selected_file, radio_state, answer, wizard,
           search_term, selected_category, categories, filtered, df_plot, cats, nodes,
           edges, error >>

NoError == [kind |-> "none", line |-> 0]
NoRadio == [id |-> "", value |-> ""]

(***************************************************************************)
(* load_templates (lines 12-16): json.load raises on a file that is not    *)
(* valid JSON and otherwise returns the document as it is; no field of a   *)
(* record is checked.                                                      *)
(***************************************************************************)
load_raises(src) == ~src.ok
load_templates(src) == src.doc

(***************************************************************************)
(* Wizard (lines 82-102).                                                  *)
(***************************************************************************)
\* variant: the stored value is returned whatever widget it was stored for
radio_stale(state, label, options) ==
  IF state.id # "" THEN state.value ELSE options[1]

\* st.radio(label, options): a widget is identified by its label; it returns
\* the value stored for that widget, or the first option when none is stored
radio(state, label, options) ==
  IF state.id = label THEN state.value ELSE options[1]

\* line 93: [t for t in templates if t["name"] == s]
match(ts, s) == SelectSeq(ts, LAMBDA t : t["name"] = s)

\* variant: the warning is emitted for every name, matched or not
resolve_item_no_else(ts, s) ==
  LET m == match(ts, s)
  IN  (IF m # <<>>
       THEN << [kind        |-> "expander",
                name        |-> m[1]["name"],
                description |-> Get(m[1], "description", ""),
                category    |-> Get(m[1], "category", "Uncategorized")] >>
       ELSE <<>>)
      \o << [kind |-> "warning", name |-> s] >>

\* variant: the last matching record is reported instead of the first
resolve_item_last(ts, s) ==
  LET m == match(ts, s)
  IN  IF m # <<>>
      THEN << [kind        |-> "expander",
               name        |-> m[Len(m)]["name"],
               description |-> Get(m[Len(m)], "description", ""),
               category    |-> Get(m[Len(m)], "category", "Uncategorized")] >>
      ELSE << [kind |-> "warning", name |-> s] >>

\* lines 94-102: what one suggested name emits
resolve_item(ts, s) ==
  LET m == match(ts, s)
  IN  IF m # <<>>
      THEN << [kind        |-> "expander",
               name        |-> m[1]["name"],
               description |-> Get(m[1], "description", ""),
               category    |-> Get(m[1], "category", "Uncategorized")] >>
      ELSE << [kind |-> "warning", name |-> s] >>

\* lines 92-102: the loop over the suggested names
RECURSIVE resolve(_, _)
resolve(ts, suggested) ==
  IF suggested = <<>> THEN <<>>
  ELSE resolve_item(ts, Head(suggested)) \o resolve(ts, Tail(suggested))

\* lines 84-102; `raised` is the line of the KeyError that ended the run, or 0
wizard_stage(ts, rl, sel, state) ==
  IF sel = "Select..."
  THEN [answer |-> "", radio |-> NoRadio, out |-> <<>>, raised |-> 0]
  ELSE
    LET question == rl[sel].question
        options  == AnswerKeys(sel)
        ans      == radio(state, question, options)
        shown    == [id |-> question, value |-> ans]
    IN  IF ans = ""
        THEN [answer |-> ans, radio |-> shown, out |-> <<>>, raised |-> 0]
        ELSE IF ans \notin DOMAIN rl[sel].answers
        THEN [answer |-> ans, radio |-> shown, out |-> <<>>, raised |-> 90]
        ELSE IF rl[sel].answers[ans] # <<>> /\ \E i \in 1..Len(ts) : ~HasKey(ts[i], "name")
        THEN [answer |-> ans, radio |-> shown, out |-> <<>>, raised |-> 93]
        ELSE [answer |-> ans, radio |-> shown, out |-> resolve(ts, rl[sel].answers[ans]),
              raised |-> 0]

(***************************************************************************)
(* Sidebar (lines 110-112).                                                *)
(***************************************************************************)
RECURSIVE SetToSeq(_)
SetToSeq(S) ==
  IF S = {} THEN <<>> ELSE LET x == CHOOSE y \in S : TRUE IN <<x>> \o SetToSeq(S \ {x})

\* line 111: sorted(list(set([t.get("category", "Uncategorized") for t in templates])))
sorted_categories(ts) ==
  SortSeq(SetToSeq({ Get(ts[i], "category", "Uncategorized") : i \in 1..Len(ts) }),
          LAMBDA a, b : StrLess(Chars(a), Chars(b)))

(***************************************************************************)
(* Filter (lines 117-121).                                                 *)
(***************************************************************************)
\* variant: the search term is not lower-cased
matches_search_raw_term(t, term) ==
  \/ StrIn(Chars(term), lower(Chars(t["name"])))
  \/ StrIn(Chars(term), lower(Chars(Get(t, "description", ""))))

\* line 119
matches_search(t, term) ==
  \/ StrIn(lower(Chars(term)), lower(Chars(t["name"])))
  \/ StrIn(lower(Chars(term)), lower(Chars(Get(t, "description", ""))))

\* line 120
matches_category(t, sel) ==
  sel = "All" \/ Get(t, "category", "Uncategorized") = sel

\* variant: a matching record goes to the front of the result
filter_step_prepend(env, t, term, sel) ==
  IF matches_search(t, term) /\ matches_category(t, sel)
  THEN [env EXCEPT !.filtered = <<t>> \o @]
  ELSE env

\* variant: a matching record is moved out of the catalog into the result
filter_step_move(env, t, term, sel) ==
  IF matches_search(t, term) /\ matches_category(t, sel)
  THEN [env EXCEPT !.filtered = Append(@, t),
                   !.templates = SelectSeq(@, LAMBDA r : r # t)]
  ELSE env

\* lines 119-121: the loop body, on the lists it can reach
filter_step(env, t, term, sel) ==
  IF matches_search(t, term) /\ matches_category(t, sel)
  THEN [env EXCEPT !.filtered = Append(@, t)]
  ELSE env

\* lines 117-121: t["name"] raises KeyError at the first record without a name
RECURSIVE filter_loop(_, _, _, _)
filter_loop(env, i, term, sel) ==
  IF i > Len(env.templates) THEN env
  ELSE IF ~HasKey(env.templates[i], "name") THEN [env EXCEPT !.raised = 119]
  ELSE filter_loop(filter_step(env, env.templates[i], term, sel), i + 1, term, sel)

(***************************************************************************)
(* Chart data (line 214) and flowchart (lines 223-238).                    *)
(***************************************************************************)
plot_rows(ts) == [i \in 1..Len(ts) |-> [Category |-> Get(ts[i], "category", "Uncategorized")]]

\* line 215: px.sunburst(df_plot, path=["Category"]) sizes each sector by the
\* number of rows that carry its category
category_counts(rows) ==
  [c \in {rows[i].Category : i \in 1..Len(rows)} |->
     Cardinality({i \in 1..Len(rows) : rows[i].Category = c})]

\* position of category cat in the dict cats, 0 when it is not a key
KeyPos(cs, cat) ==
  IF \E k \in 1..Len(cs) : cs[k].cat = cat
  THEN CHOOSE k \in 1..Len(cs) : cs[k].cat = cat
  ELSE 0

\* variant: the name list of a category is reset at every record
group_step_reset(g, t) ==
  LET cat == Get(t, "category", "Uncategorized")
      g1  == IF KeyPos(g.cats, cat) = 0
             THEN [nodes |-> Append(g.nodes, [id |-> cat, label |-> cat, size |-> 20]),
                   edges |-> Append(g.edges, [source |-> "Content", target |-> cat]),
                   cats  |-> Append(g.cats, [cat |-> cat, items |-> <<>>])]
             ELSE g
  IN  [g1 EXCEPT !.cats[KeyPos(g1.cats, cat)].items = << t["name"] >>]

\* lines 228-233: the body of the grouping loop
group_step(g, t) ==
  LET cat == Get(t, "category", "Uncategorized")
      g1  == IF KeyPos(g.cats, cat) = 0
             THEN [nodes |-> Append(g.nodes, [id |-> cat, label |-> cat, size |-> 20]),
                   edges |-> Append(g.edges, [source |-> "Content", target |-> cat]),
                   cats  |-> Append(g.cats, [cat |-> cat, items |-> <<>>])]
             ELSE g
  IN  [g1 EXCEPT !.cats[KeyPos(g1.cats, cat)].items = Append(@, t["name"])]

RECURSIVE group_loop(_, _)
group_loop(g, ts) ==
  IF ts = <<>> THEN g ELSE group_loop(group_step(g, Head(ts)), Tail(ts))

\* lines 236-238: one node and one edge per name of a category
RECURSIVE item_nodes(_, _, _)
item_nodes(g, cat, items) ==
  IF items = <<>> THEN g
  ELSE item_nodes([g EXCEPT !.nodes = Append(@, [id |-> Head(items), label |-> Head(items), size |-> 15]),
                            !.edges = Append(@, [source |-> cat, target |-> Head(items)])],
                  cat, Tail(items))

\* lines 235-238
RECURSIVE cat_nodes(_, _)
cat_nodes(g, k) ==
  IF k > Len(g.cats) THEN g
  ELSE cat_nodes(item_nodes(g, g.cats[k].cat, g.cats[k].items), k + 1)

\* lines 223-238
flowchart(ts) ==
  cat_nodes(group_loop([nodes |-> << [id |-> "Content", label |-> "Content Type", size |-> 25] >>,
                        edges |-> <<>>, cats |-> <<>>], ts), 1)

(***************************************************************************)
(* One run of the script with the given widget values.                     *)
(***************************************************************************)
Run(sel, state, term, selcat) ==
  IF load_raises(source)
  THEN /\ error' = [kind |-> "JSONDecodeError", line |-> 16]
       /\ templates' = <<>> /\ rules' = rules
       /\ selected_file' = sel /\ radio_state' = state /\ answer' = ""
       /\ wizard' = <<>> /\ search_term' = term /\ selected_category' = selcat
       /\ categories' = <<>> /\ filtered' = <<>> /\ df_plot' = <<>>
       /\ cats' = <<>> /\ nodes' = <<>> /\ edges' = <<>>
  ELSE
    LET ts == load_templates(source)
        W  == wizard_stage(ts, RuleTable, sel, state)
        F  == filter_loop([templates |-> ts, filtered |-> <<>>, raised |-> 0], 1, term, selcat)
        G  == flowchart(F.templates)
    IN  /\ rules' = RuleTable
        /\ selected_file' = sel
        /\ radio_state' = W.radio
        /\ answer' = W.answer
        /\ wizard' = W.out
        /\ search_term' = term
        /\ selected_category' = selcat
        /\ IF W.raised # 0
           THEN /\ error' = [kind |-> "KeyError", line |-> W.raised]
                /\ templates' = ts
                /\ categories' = <<>> /\ filtered' = <<>> /\ df_plot' = <<>>
                /\ cats' = <<>> /\ nodes' = <<>> /\ edges' = <<>>
           ELSE IF F.raised # 0
           THEN /\ error' = [kind |-> "KeyError", line |-> F.raised]
                /\ templates' = F.templates
                /\ categories' = sorted_categories(ts)
                /\ filtered' = F.filtered
                /\ df_plot' = <<>> /\ cats' = <<>> /\ nodes' = <<>> /\ edges' = <<>>
           ELSE IF \E i \in 1..Len(F.templates) : ~HasKey(F.templates[i], "name")
           THEN \* line 233: t["name"] raises KeyError in the grouping loop
                /\ error' = [kind |-> "KeyError", line |-> 233]
                /\ templates' = F.templates
                /\ categories' = sorted_categories(ts)
                /\ filtered' = F.filtered
                /\ df_plot' = plot_rows(F.templates)
                /\ cats' = <<>> /\ nodes' = <<>> /\ edges' = <<>>
           ELSE /\ error' = NoError
                /\ templates' = F.templates
                /\ categories' = sorted_categories(ts)
                /\ filtered' = F.filtered
                /\ df_plot' = plot_rows(F.templates)
                /\ cats' = G.cats /\ nodes' = G.nodes /\ edges' = G.edges

\* which widgets the last run rendered
FileBoxShown == started /\ error.line # 16
RadioShown   == FileBoxShown /\ selected_file # "Select..."
SidebarShown == started /\ (error.line = 0 \/ error.line > 112)

Init ==
  /\ source \in Sources
  /\ started = FALSE
  /\ templates = <<>> /\ rules = RuleTable
  /\ selected_file = "Select..." /\ radio_state = NoRadio /\ answer = ""
  /\ wizard = <<>> /\ search_term = "" /\ selected_category = "All"
  /\ categories = <<>> /\ filtered = <<>> /\ df_plot = <<>>
  /\ cats = <<>> /\ nodes = <<>> /\ edges = <<>>
  /\ error = NoError

\* session start: the first run, every widget at its default
Start ==
  /\ ~started
  /\ started' = TRUE
  /\ Run("Select...", NoRadio, "", "All")
  /\ UNCHANGED source

\* the user picks an entry of the file-type selectbox (line 82)
SelectFile ==
  /\ FileBoxShown
  /\ \E f \in {"Select..."} \cup {file_types[i] : i \in 1..Len(file_types)} :
       /\ f # selected_file
       /\ Run(f, radio_state, search_term, selected_category)
  /\ UNCHANGED << source, started >>

\* the user picks one of the options the radio shows (line 87)
SelectAnswer ==
  /\ RadioShown
  /\ \E i \in 1..Len(AnswerKeys(selected_file)) :
       /\ AnswerKeys(selected_file)[i] # radio_state.value
       /\ Run(selected_file, [radio_state EXCEPT !.value = AnswerKeys(selected_file)[i]],
              search_term, selected_category)
  /\ UNCHANGED << source, started >>

\* the user edits the search box (line 110)
SetSearchTerm ==
  /\ SidebarShown
  /\ \E s \in SearchTerms :
       /\ s # search_term
       /\ Run(selected_file, radio_state, s, selected_category)
  /\ UNCHANGED << source, started >>

\* the user picks an entry of the category selectbox (line 112)
SelectCategory ==
  /\ SidebarShown
  /\ \E c \in {"All"} \cup {categories[i] : i \in 1..Len(categories)} :
       /\ c # selected_category
       /\ Run(selected_file, radio_state, search_term, c)
  /\ UNCHANGED << source, started >>

Next == Start \/ SelectFile \/ SelectAnswer \/ SetSearchTerm \/ SelectCategory

Spec == Init /\ [][Next]_vars

(***************************************************************************)
(* How far the last run of the script got.                                 *)
(***************************************************************************)
\* the wizard loop (lines 92-102) ran to its end
WizardDone == started /\ selected_file # "Select..." /\ error.line \notin {16, 90, 93}
\* the filter loop (lines 117-121) ran to its end
FilterDone == started /\ error.line \notin {16, 90, 93, 119}
\* the chart data and the flowchart (lines 214-238) were built
AggregateDone == started /\ error = NoError

\* the name sequence the rule table recommends for the current selection
Suggested == rules[selected_file].answers[answer]

Range(q) == {q[i] : i \in 1..Len(q)}

(***************************************************************************)
(* C1                                                                      *)
(***************************************************************************)
\* the inclusion condition as the filter's contract words it
Included(r, term, sel) ==
  /\ \/ StrIn(lower(Chars(term)), lower(Chars(r.name)))
     \/ StrIn(lower(Chars(term)), lower(Chars(IF "description" \in DOMAIN r THEN r.description ELSE "")))
  /\ \/ sel = "All"
     \/ (IF "category" \in DOMAIN r THEN r.category ELSE "Uncategorized") = sel

\* C1: once the filter has run, a record of the catalog is in the result if
\* and only if the lower-cased search term occurs in its lower-cased name or
\* description (absent description read as empty) and the category
\* constraint is "All" or equals its category (absent category read as
\* "Uncategorized"); the empty term with "All" returns the whole catalog.
C1_FilterMembership ==
  FilterDone =>
    /\ \A i \in 1..Len(templates) :
         (templates[i] \in Range(filtered)) <=> Included(templates[i], search_term, selected_category)
    /\ (search_term = "" /\ selected_category = "All") => filtered = templates

\* a mixed-case term that keeps one record through its description only and
\* drops another record
C1_Witness ==
  /\ FilterDone /\ search_term = "TT"
  /\ \E i \in 1..Len(templates) :
       /\ templates[i] \in Range(filtered)
       /\ ~StrIn(lower(Chars(search_term)), lower(Chars(templates[i].name)))
  /\ \E i \in 1..Len(templates) : templates[i] \notin Range(filtered)

(***************************************************************************)
(* C2                                                                      *)
(***************************************************************************)
RECURSIVE IsSubsequence(_, _)
IsSubsequence(a, b) ==
  IF a = <<>> THEN TRUE
  ELSE IF b = <<>> THEN FALSE
  ELSE IF Head(a) = Head(b) THEN IsSubsequence(Tail(a), Tail(b))
  ELSE IsSubsequence(a, Tail(b))

\* C2: the filter result is a subsequence of the catalog: its records are
\* catalog records, none more often than in the catalog, in catalog order.
C2_FilterSubsequence ==
  FilterDone => IsSubsequence(filtered, templates)

\* two different records pass a non-trivial query
C2_Witness ==
  /\ FilterDone /\ search_term = "TT"
  /\ Len(filtered) >= 2 /\ filtered[1] # filtered[2]

(***************************************************************************)
(* C3                                                                      *)
(***************************************************************************)
\* C3: the wizard emits exactly one element per recommended name, in the
\* order of the names, and each element is either the expander of a record
\* (Found) or the warning for the name (Missing).
C3_OneItemPerName ==
  WizardDone =>
    /\ Len(wizard) = Len(Suggested)
    /\ \A i \in 1..Len(wizard) :
         /\ wizard[i].kind \in {"expander", "warning"}
         /\ wizard[i].name = Suggested[i]

\* an answer whose names resolve to a warning and to an expander
C3_Witness ==
  /\ WizardDone
  /\ \E i, j \in 1..Len(wizard) : wizard[i].kind = "warning" /\ wizard[j].kind = "expander"

(***************************************************************************)
(* C4                                                                      *)
(***************************************************************************)
Named(s) == {j \in 1..Len(templates) : templates[j].name = s}
FirstNamed(s) == CHOOSE j \in Named(s) : \A k \in Named(s) : j <= k

\* C4: a recommended name is Found exactly when some record carries that
\* very name, the record shown is the first such record of the catalog, and
\* otherwise the name is reported Missing as it is; a Missing name does not
\* end the run or the resolution of the names after it.
C4_FirstExactMatch ==
  WizardDone =>
    /\ Len(wizard) >= Len(Suggested)
    /\ \A i \in 1..Len(Suggested) :
         IF Named(Suggested[i]) # {}
         THEN LET r == templates[FirstNamed(Suggested[i])]
              IN  wizard[i] = [kind        |-> "expander",
                               name        |-> r.name,
                               description |-> IF "description" \in DOMAIN r THEN r.description ELSE "",
                               category    |-> IF "category" \in DOMAIN r THEN r.category ELSE "Uncategorized"]
         ELSE wizard[i] = [kind |-> "warning", name |-> Suggested[i]]

\* a Missing name followed by a name that two different records carry, with
\* a record in the catalog whose name differs from a recommended one in case
C4_Witness ==
  /\ WizardDone
  /\ Len(wizard) = 2 /\ wizard[1].kind = "warning" /\ wizard[2].kind = "expander"
  /\ \E j, k \in Named(Suggested[2]) : j < k /\ templates[j] # templates[k]

\* a name that is in the catalog only in another case is Missing
C4_CaseWitness ==
  /\ WizardDone /\ Suggested = <<"VTT">>
  /\ wizard[1].kind = "warning"
  /\ \E j \in 1..Len(templates) : templates[j].name = "vtt"

(***************************************************************************)
(* C5                                                                      *)
(***************************************************************************)
RECURSIVE TotalItems(_)
TotalItems(cs) == IF cs = <<>> THEN 0 ELSE Len(Head(cs).items) + TotalItems(Tail(cs))

\* C5: the name lists of the hierarchy have len(catalog) names in total, the
\* chart counts exactly the categories of the hierarchy, and each category's
\* count is the length of its name list.
C5_AggregateCounts ==
  AggregateDone =>
    /\ TotalItems(cats) = Len(templates)
    /\ DOMAIN category_counts(df_plot) = {cats[k].cat : k \in 1..Len(cats)}
    /\ \A k \in 1..Len(cats) : category_counts(df_plot)[cats[k].cat] = Len(cats[k].items)

\* a category that holds two records
C5_Witness ==
  /\ AggregateDone
  /\ \E k \in 1..Len(cats) : Len(cats[k].items) >= 2

(***************************************************************************)
(* C6                                                                      *)
(***************************************************************************)
\* C6: a record whose category is absent or the empty string is counted and
\* listed under "Uncategorized", and no group has the empty string as key.
C6_EmptyCategoryUncategorized ==
  AggregateDone =>
    /\ \A i \in 1..Len(templates) :
         ("category" \notin DOMAIN templates[i] \/ templates[i].category = "") =>
           /\ df_plot[i].Category = "Uncategorized"
           /\ \E k \in 1..Len(cats) :
                cats[k].cat = "Uncategorized" /\ templates[i].name \in Range(cats[k].items)
    /\ \A k \in 1..Len(cats) : cats[k].cat # ""

(***************************************************************************)
(* C7                                                                      *)
(***************************************************************************)
\* C7: when the source is malformed or holds a record without a name, the
\* run ends at the load (line 16) and nothing after the load is executed
\* on the catalog.
C7_LoadRejectsNameless ==
  (started /\ (~source.ok \/ \E i \in 1..Len(source.doc) : "name" \notin DOMAIN source.doc[i])) =>
    /\ error.line = 16
    /\ templates = <<>> /\ filtered = <<>> /\ wizard = <<>>

(***************************************************************************)
(* C8                                                                      *)
(***************************************************************************)
\* C8: once the script has run, no later interaction changes the catalog or
\* the rule table.
C8_CatalogAndRulesFrozen ==
  [][started => (templates' = templates /\ rules' = rules)]_vars

\* every kind of interaction has happened on a non-empty catalog
C8_Witness ==
  /\ started /\ templates # <<>> /\ error = NoError
  /\ selected_file # "Select..." /\ answer = AnswerKeys(selected_file)[2]
  /\ search_term # "" /\ selected_category # "All"

(***************************************************************************)
(* C9                                                                      *)
(***************************************************************************)
\* C9: whenever a file type is selected, it is a key of the rule table, the
\* answer the run used is a key of that file type's answers, and the lookup
\* of line 90 did not raise.
C9_LookupKeysValid ==
  (started /\ source.ok /\ selected_file # "Select...") =>
    /\ selected_file \in DOMAIN rules
    /\ answer \in DOMAIN rules[selected_file].answers
    /\ error.line # 90

\* the second answer of a file type whose labels no other file type offers
C9_Witness ==
  /\ started /\ source.ok
  /\ selected_file = "Excel" /\ answer = "Monolingual" /\ wizard # <<>>

(***************************************************************************)
(* C10                                                                     *)
(***************************************************************************)
\* C10: for a catalog of non-empty, pairwise distinct names the diagram's
\* node ids are pairwise distinct and every edge joins two distinct nodes
\* of the diagram.
C10_DistinctNodeIds ==
  (/\ AggregateDone
   /\ \A i \in 1..Len(templates) : templates[i].name # ""
   /\ \A i, j \in 1..Len(templates) : i # j => templates[i].name # templates[j].name) =>
    /\ \A i, j \in 1..Len(nodes) : i # j => nodes[i].id # nodes[j].id
    /\ \A e \in 1..Len(edges) :
         /\ edges[e].source # edges[e].target
         /\ \E i \in 1..Len(nodes) : nodes[i].id = edges[e].source
         /\ \E i \in 1..Len(nodes) : nodes[i].id = edges[e].target

====
